---- MODULE Spec2Model ----
(***************************************************************************)
(* A model of the rustr core (crate `core`): the outbox queue, the relay   *)
(* connections, the subscription manager and the CoreHandle control loop.  *)
(* Strings that the code inspects by prefix (subscription ids) are         *)
(* sequences of one-character strings; event JSON is a record that keeps   *)
(* the event's own id and the ids it mentions in its tags, which is what   *)
(* `event_json.contains(event_id)` looks at.                               *)
(***************************************************************************)
EXTENDS Integers, Sequences, FiniteSets, TLC

----------------------------------------------------------------------------
\* Bounds of the model

NumRelays == 2
MaxEnqueue == 3
MaxInbox == 1
MaxAdvances == 1
StartTime == 1000
NonceRange == 2
MaxOutboxItems == 2
MaxEose == 6
MaxExtends == 3
MaxPending == 3
MaxBuffered == 2
MaxFeedIds == 2
MaxRows == 3
MaxPoll == 2

----------------------------------------------------------------------------
\* Program constants

MAX_RETRY_COUNT == 5
RETRY_DELAY_SECONDS == 5
INITIAL_WINDOW == 600
MAX_STAGE == 4
MIN_DELAY == 1
MAX_DELAY == 60

Relays == 1..NumRelays
\* the clock is observed in steps of the retry delay
TimeSteps == {RETRY_DELAY_SECONDS}
MaxElapsed == MaxAdvances * RETRY_DELAY_SECONDS

\* a count of transmissions stops here, one past the retry budget
CountCap == MAX_RETRY_COUNT + 1

ChannelIds == {<<"a">>}
PeerIds == {<<"p">>}
SelfPubkey == <<"s">>

----------------------------------------------------------------------------
\* State

VARIABLES
    now,                  \* the wall clock, in seconds (js_sys::Date::now()/1000)
    pending,              \* OutboxQueue.pending
    storage,              \* the Storage outbox store
    storageUp,            \* whether Storage operations succeed
    nextEvent,            \* number of events signed so far (event ids are 1, 2, ...)
    rstate,               \* RelayConnection.state, per relay
    ws,                   \* RelayConnection.ws and the socket's readyState, per relay
    last_connect_attempt, \* RelayConnection.last_connect_attempt, per relay
    current_delay,        \* RelayConnection.backoff.current_delay, per relay
    inbox,                \* RelayConnection.message_queue, per relay
    active_subs,          \* SubscriptionManager.active_subs
    channel_windows,      \* SubscriptionManager.channel_windows (since per channel)
    dm_windows,           \* SubscriptionManager.dm_windows (since per peer)
    signer,               \* CoreHandle.signer is Some
    event_buffer,         \* CoreHandle.event_buffer
    saved,                \* event ids save_event was called with, in call order
    lastOp,               \* the operation that ran last
    lastResult,           \* "ok" or "err": what that operation returned
    lastSent,             \* the frames that operation handed to RelayConnection::send
    wire,                 \* every (relay, frame) a socket has transmitted so far
    acked,                \* req_ids for which on_ok(.., true, ..) found the item
    extends,              \* number of calls of extend_window made on the manager
    bad_url,              \* the relays whose url WebSocket::new rejects
    returned,             \* what the last operation returned, <<>> for ()
    dispatched,           \* the messages the last operation gave process_relay_message
    sendCount             \* per relay and event id, how often a socket has transmitted
                          \* the event, up to CountCap; <<>> when no count is kept

outboxVars == <<pending, storage, nextEvent, acked>>
relayVars == <<rstate, ws, last_connect_attempt, current_delay, inbox, bad_url>>
subVars == <<active_subs, channel_windows, dm_windows>>
feedVars == <<event_buffer, saved>>
traceVars == <<lastOp, lastResult, lastSent, wire, extends, returned, dispatched,
               sendCount>>
vars == <<now, storageUp, signer, outboxVars, relayVars, subVars, feedVars, traceVars>>

----------------------------------------------------------------------------
\* Values

NoEvent == [id |-> 0, mentions |-> {}]
NoSub == <<>>
NoFilter == [kinds |-> 0, tag_e |-> <<>>, authors |-> <<>>, tag_p |-> <<>>, since |-> 0]

\* event_json.contains(event_id)
Contains(event_json, event_id) ==
    event_id = event_json.id \/ event_id \in event_json.mentions

\* format!(r#"["REQ","{}",{}]"#, sub_id, filter_json)
ReqFrame(sub_id, filter_json) ==
    [array |-> TRUE, first |-> "REQ", sub_id |-> sub_id, filter |-> filter_json,
     event |-> NoEvent]

\* format!(r#"["EVENT",{}]"#, event_json)
EventFrame(event_json) ==
    [array |-> TRUE, first |-> "EVENT", sub_id |-> NoSub, filter |-> NoFilter,
     event |-> event_json]

\* the event JSON itself, a JSON object, passed to send as it is
BareEventFrame(event_json) ==
    [array |-> FALSE, first |-> "none", sub_id |-> NoSub, filter |-> NoFilter,
     event |-> event_json]

\* RelayMessage
MsgOk(event_id, accepted, message) ==
    [type |-> "Ok", event_id |-> event_id, accepted |-> accepted, message |-> message,
     sub_id |-> NoSub, event |-> NoEvent]

MsgEose(sub_id) ==
    [type |-> "Eose", event_id |-> 0, accepted |-> FALSE, message |-> "",
     sub_id |-> sub_id, event |-> NoEvent]

MsgEvent(sub_id, event_json) ==
    [type |-> "Event", event_id |-> 0, accepted |-> FALSE, message |-> "",
     sub_id |-> sub_id, event |-> event_json]

MsgNotice(message) ==
    [type |-> "Notice", event_id |-> 0, accepted |-> FALSE, message |-> message,
     sub_id |-> NoSub, event |-> NoEvent]

SeqToSet(s) == {s[i] : i \in 1..Len(s)}

\* the least index of S, 0 when S is empty (a first match of a linear search)
FirstIndex(S) ==
    IF S = {} THEN 0 ELSE CHOOSE k \in S : \A j \in S : k <= j

----------------------------------------------------------------------------
\* Storage (the outbox store)

\* MockStorage::enqueue_outbox
EnqueueOutbox(sto, item) == Append(sto, item)

\* MockStorage::update_outbox_status: the first record with this req_id
UpdateOutboxStatus(sto, req_id, status) ==
    LET k == FirstIndex({i \in 1..Len(sto) : sto[i].req_id = req_id})
    IN IF k = 0 THEN sto ELSE [sto EXCEPT ![k].status = status]

\* MockStorage::get_pending_outbox
GetPendingOutbox(sto) ==
    SelectSeq(sto, LAMBDA i : i.status \in {"Queued", "Sent"})

----------------------------------------------------------------------------
\* RelayConnection

\* RelayConnection::is_connected
IsConnected(rs, r) == rs[r] = "Connected"

\* a send that looks at the socket only, not at the state
SendTakesWhenever(rs, sock, r) == sock[r] # "None"

\* RelayConnection::send: the socket takes the frame iff there is a socket and
\* the state is Connected; otherwise the frame is dropped and send returns Ok
SendTakes(rs, sock, r) == sock[r] # "None" /\ rs[r] = "Connected"

\* for relay in &self.relays { relay.send(&frame) }
Broadcast(rs, sock, frame) ==
    [r \in Relays |-> [relay |-> r, frame |-> frame, taken |-> SendTakes(rs, sock, r)]]

\* a needs_reconnect with its comparison the wrong way round
NeedsReconnectTooEarly(r) ==
    IF rstate[r] = "Connected" THEN FALSE
    ELSE now - last_connect_attempt[r] < current_delay[r]

\* RelayConnection::needs_reconnect
NeedsReconnect(r) ==
    IF rstate[r] = "Connected" THEN FALSE
    ELSE now - last_connect_attempt[r] >= current_delay[r]

Transmitted(sent) ==
    {[relay |-> sent[i].relay, frame |-> [sent[i].frame EXCEPT !.filter = NoFilter]] :
        i \in {j \in 1..Len(sent) : sent[j].taken}}

----------------------------------------------------------------------------
\* OutboxQueue

\* the item OutboxQueue::enqueue builds; generate_req_id is the clock and a
\* random number
NewItem(event_json, nonce) ==
    [req_id |-> [ts |-> now, nonce |-> nonce], event_json |-> event_json,
     status |-> "Queued", last_try_at |-> now, retry_count |-> 0, error |-> "None"]

\* OutboxQueue::dequeue, an Option as a sequence of at most one element
Dequeue(q) ==
    IF q # <<>> /\ Head(q).status = "Queued" THEN <<Head(q).event_json>> ELSE <<>>

\* OutboxQueue::on_ok
OnOk(q, sto, event_id, accepted, message) ==
    LET k == FirstIndex({i \in 1..Len(q) : Contains(q[i].event_json, event_id)})
    IN IF k = 0
       THEN [pending |-> q, storage |-> sto, err |-> FALSE, acked |-> {}]
       ELSE
         LET req_id == q[k].req_id
             m == FirstIndex({i \in 1..Len(q) : q[i].req_id = req_id})
         IN IF accepted
            THEN [pending |-> SelectSeq(q, LAMBDA i : i.req_id # req_id),
                  storage |-> IF storageUp THEN UpdateOutboxStatus(sto, req_id, "Ok")
                              ELSE sto,
                  err |-> ~storageUp,
                  acked |-> {req_id}]
            ELSE [pending |-> [q EXCEPT ![m].status = "Error", ![m].error = message],
                  storage |-> IF storageUp THEN UpdateOutboxStatus(sto, req_id, "Error")
                              ELSE sto,
                  err |-> ~storageUp,
                  acked |-> {}]

\* a send loop that does not ask is_connected
ProcessSendsAll(rs, sock, item) ==
    [r \in 1..NumRelays |->
          [relay |-> r, frame |-> BareEventFrame(item.event_json),
           taken |-> SendTakes(rs, sock, r)]]

\* one item of the loop of OutboxQueue::process, with a relay Connected or not
ProcessSends(rs, sock, item) ==
    LET conn == {r \in Relays : IsConnected(rs, r)}
    IN [r \in 1..Cardinality(conn) |->
          LET rel == CHOOSE x \in conn : Cardinality({y \in conn : y < x}) = r - 1
          IN [relay |-> rel, frame |-> BareEventFrame(item.event_json),
              taken |-> SendTakes(rs, sock, rel)]]

\* the retry budget check of OutboxQueue::process
Exhausted(item) == item.retry_count >= MAX_RETRY_COUNT

RECURSIVE ProcessLoop(_, _, _, _, _, _)
\* OutboxQueue::process: q is what is left of self.pending, to_retry the local
\* vector; a Storage error returns at once, with to_retry dropped
ProcessLoop(q, to_retry, sto, out, rs, sock) ==
    IF q = <<>>
    THEN [pending |-> to_retry, storage |-> sto, sent |-> out, err |-> FALSE]
    ELSE
      LET item == Head(q)
          rest == Tail(q)
      IN IF item.status = "Sent" /\ now - item.last_try_at < RETRY_DELAY_SECONDS
         THEN ProcessLoop(rest, Append(to_retry, item), sto, out, rs, sock)
         ELSE IF Exhausted(item)
         THEN IF storageUp
              THEN ProcessLoop(rest, to_retry,
                               UpdateOutboxStatus(sto, item.req_id, "Error"),
                               out, rs, sock)
              ELSE [pending |-> rest, storage |-> sto, sent |-> out, err |-> TRUE]
         ELSE
           LET sends == ProcessSends(rs, sock, item)
               sent_count == Len(sends)
           IN IF sent_count > 0
              THEN IF storageUp
                   THEN ProcessLoop(rest,
                          Append(to_retry, [item EXCEPT !.status = "Sent",
                                                        !.last_try_at = now,
                                                        !.retry_count = @ + 1]),
                          UpdateOutboxStatus(sto, item.req_id, "Sent"),
                          out \o sends, rs, sock)
                   ELSE [pending |-> rest, storage |-> sto, sent |-> out \o sends,
                         err |-> TRUE]
              ELSE ProcessLoop(rest, Append(to_retry, item), sto, out, rs, sock)

\* a rearming that looks at the status only
RearmAnyError(item) ==
    IF item.status = "Error"
    THEN [item EXCEPT !.status = "Queued", !.error = "None"]
    ELSE item

\* OutboxQueue::retry_failed, one item
Rearm(item) ==
    IF /\ item.status = "Error"
       /\ item.retry_count < MAX_RETRY_COUNT
       /\ now - item.last_try_at >= RETRY_DELAY_SECONDS * item.retry_count
    THEN [item EXCEPT !.status = "Queued", !.error = "None"]
    ELSE item

----------------------------------------------------------------------------
\* Strings

\* str::starts_with
StartsWith(s, prefix) ==
    Len(s) >= Len(prefix) /\ SubSeq(s, 1, Len(prefix)) = prefix

\* the index of the first ':' of s, 0 when there is none
FirstColon(s) == FirstIndex({i \in 1..Len(s) : s[i] = ":"})

\* s.splitn(2, ':'): one part when s has no ':', else the text before the first
\* ':' and everything after it
SplitN2(s) ==
    IF FirstColon(s) = 0 THEN <<s>>
    ELSE <<SubSeq(s, 1, FirstColon(s) - 1), SubSeq(s, FirstColon(s) + 1, Len(s))>>

\* s.split(':').next()
SplitNext(s) ==
    IF FirstColon(s) = 0 THEN s ELSE SubSeq(s, 1, FirstColon(s) - 1)

ChannelPrefix == <<"c", "h", "a", "n", "n", "e", "l", ":">>
DmPrefix == <<"d", "m", ":">>

\* format!("ch:{}", channel_id)
ChSubId(channel_id) == <<"c", "h", ":">> \o channel_id

\* format!("dm:{}", peer)
DmSubId(peer) == <<"d", "m", ":">> \o peer

\* format!("dm:{}:r", peer)
DmRevSubId(peer) == <<"d", "m", ":">> \o peer \o <<":", "r">>

----------------------------------------------------------------------------
\* SubscriptionManager; sm is [active_subs, channel_windows, dm_windows]

\* HashMap::insert
Insert(map, key, value) == (key :> value) @@ map

\* HashMap::remove
Remove(map, key) == [k \in DOMAIN map \ {key} |-> map[k]]

ActiveSub(sub_id, filter_json, at) ==
    [sub_id |-> sub_id, filter_json |-> filter_json, eose_count |-> 0,
     last_extended_at |-> at]

\* json!({"kinds": [42], "#e": [channel_id], "since": since})
ChannelFilter(channel_id, since) ==
    [kinds |-> 42, tag_e |-> channel_id, authors |-> <<>>, tag_p |-> <<>>,
     since |-> since]

\* json!({"kinds": [4], "authors": [author], "#p": [p], "since": since})
DmFilter(author, p, since) ==
    [kinds |-> 4, tag_e |-> <<>>, authors |-> author, tag_p |-> p, since |-> since]

\* SubscriptionManager::open_channel
SmOpenChannel(sm, channel_id) ==
    LET since == now - INITIAL_WINDOW
        sub_id == ChSubId(channel_id)
        filter == ChannelFilter(channel_id, since)
    IN [sm |-> [active_subs |-> Insert(sm.active_subs, sub_id,
                                       ActiveSub(sub_id, filter, now)),
                channel_windows |-> Insert(sm.channel_windows, channel_id, since),
                dm_windows |-> sm.dm_windows],
        filters |-> <<[sub_id |-> sub_id, filter_json |-> filter]>>]

\* SubscriptionManager::open_dm
SmOpenDm(sm, peer, self_pubkey) ==
    LET since == now - INITIAL_WINDOW
        sub_id == DmSubId(peer)
        filter == DmFilter(self_pubkey, peer, since)
        sub_id2 == DmRevSubId(peer)
        filter2 == DmFilter(peer, self_pubkey, since)
    IN [sm |-> [active_subs |->
                    Insert(Insert(sm.active_subs, sub_id,
                                  ActiveSub(sub_id, filter, now)),
                           sub_id2, ActiveSub(sub_id2, filter2, now)),
                channel_windows |-> sm.channel_windows,
                dm_windows |-> Insert(sm.dm_windows, peer, since)],
        filters |-> <<[sub_id |-> sub_id, filter_json |-> filter],
                      [sub_id |-> sub_id2, filter_json |-> filter2]>>]

\* a mark_eose that starts counting for a sub_id it does not know
MarkEoseCreates(sm, sub_id) ==
    IF sub_id \in DOMAIN sm.active_subs
    THEN [sm EXCEPT !.active_subs[sub_id].eose_count = @ + 1]
    ELSE [sm EXCEPT !.active_subs =
              Insert(@, sub_id, [ActiveSub(sub_id, NoFilter, now) EXCEPT !.eose_count = 1])]

\* SubscriptionManager::mark_eose
SmMarkEose(sm, sub_id) ==
    IF sub_id \in DOMAIN sm.active_subs
    THEN [sm EXCEPT !.active_subs[sub_id].eose_count = @ + 1]
    ELSE sm

\* a check that lets every active subscription extend, whatever its stage
ShouldExtendAnyStage(sm, sub_id) == sub_id \in DOMAIN sm.active_subs

\* SubscriptionManager::should_extend_window
ShouldExtendWindow(sm, sub_id) ==
    IF sub_id \in DOMAIN sm.active_subs
    THEN sm.active_subs[sub_id].eose_count < MAX_STAGE
    ELSE FALSE

\* SubscriptionManager::needs_extension
NeedsExtension(sm, sub_id) == ShouldExtendWindow(sm, sub_id)

\* the match of SubscriptionManager::extend_window; 0 is the `_` arm
AdditionalSeconds(eose_count) ==
    CASE eose_count = 1 -> 3600
      [] eose_count = 2 -> 86400
      [] eose_count = 3 -> 604800
      [] eose_count = 4 -> 2592000
      [] OTHER -> 0

\* an extension that builds the filter anew around the new since
CreateFreshFilter(sm, sub_id, new_since) ==
    IF sub_id \notin DOMAIN sm.active_subs
    THEN [sm |-> sm, filters |-> <<>>]
    ELSE LET new_filter == [NoFilter EXCEPT !.since = new_since]
         IN [sm |-> [sm EXCEPT !.active_subs[sub_id].filter_json = new_filter,
                               !.active_subs[sub_id].last_extended_at = now],
             filters |-> <<[sub_id |-> sub_id, filter_json |-> new_filter]>>]

\* SubscriptionManager::create_extended_filter
CreateExtendedFilter(sm, sub_id, new_since) ==
    IF sub_id \notin DOMAIN sm.active_subs
    THEN [sm |-> sm, filters |-> <<>>]
    ELSE LET new_filter == [sm.active_subs[sub_id].filter_json EXCEPT !.since = new_since]
         IN [sm |-> [sm EXCEPT !.active_subs[sub_id].filter_json = new_filter,
                               !.active_subs[sub_id].last_extended_at = now],
             filters |-> <<[sub_id |-> sub_id, filter_json |-> new_filter]>>]

\* SubscriptionManager::extend_window; None is the empty sequence of filters
SmExtendWindow(sm, sub_id) ==
    IF sub_id \notin DOMAIN sm.active_subs THEN [sm |-> sm, filters |-> <<>>]
    ELSE
      LET eose_count == sm.active_subs[sub_id].eose_count
          additional_seconds == AdditionalSeconds(eose_count)
      IN IF eose_count \notin 1..4 THEN [sm |-> sm, filters |-> <<>>]
         ELSE IF StartsWith(sub_id, ChannelPrefix)
         THEN LET channel_id == SubSeq(sub_id, Len(ChannelPrefix) + 1, Len(sub_id))
              IN IF channel_id \in DOMAIN sm.channel_windows
                 THEN LET since == sm.channel_windows[channel_id] - additional_seconds
                      IN CreateExtendedFilter(
                             [sm EXCEPT !.channel_windows[channel_id] = since],
                             sub_id, since)
                 ELSE [sm |-> sm, filters |-> <<>>]
         ELSE IF StartsWith(sub_id, DmPrefix)
         THEN LET parts == SplitN2(sub_id)
              IN IF Len(parts) >= 2
                 THEN LET peer == SplitNext(parts[2])
                      IN IF peer \in DOMAIN sm.dm_windows
                         THEN LET since == sm.dm_windows[peer] - additional_seconds
                              IN CreateExtendedFilter(
                                     [sm EXCEPT !.dm_windows[peer] = since],
                                     sub_id, since)
                         ELSE [sm |-> sm, filters |-> <<>>]
                 ELSE [sm |-> sm, filters |-> <<>>]
         ELSE [sm |-> sm, filters |-> <<>>]

\* SubscriptionManager::close_subscription
SmCloseSubscription(sm, sub_id) ==
    [sm EXCEPT !.active_subs = Remove(sm.active_subs, sub_id)]

----------------------------------------------------------------------------
\* CoreHandle

EmptyMap == [k \in {} |-> 0]

\* the SubscriptionManager of the current state
Sm ==
    [active_subs |-> active_subs, channel_windows |-> channel_windows,
     dm_windows |-> dm_windows]

RECURSIVE BroadcastReqs(_, _, _)
\* for (sub_id, filter_json) in filters { for relay in &self.relays { send REQ } }
BroadcastReqs(rs, sock, filters) ==
    IF filters = <<>> THEN <<>>
    ELSE Broadcast(rs, sock, ReqFrame(Head(filters).sub_id, Head(filters).filter_json))
         \o BroadcastReqs(rs, sock, Tail(filters))

\* CoreHandle::process_relay_message; d is the engine state the message acts on
ProcessRelayMessage(d, msg, rs, sock) ==
    CASE msg.type = "Event" ->
           IF storageUp
           THEN [d EXCEPT !.saved = Append(@, msg.event.id),
                          !.event_buffer = Append(@, msg.event.id)]
           ELSE [d EXCEPT !.err = TRUE]
      [] msg.type = "Eose" ->
           LET marked == SmMarkEose(d.sm, msg.sub_id)
           IN IF NeedsExtension(marked, msg.sub_id)
              THEN LET ext == SmExtendWindow(marked, msg.sub_id)
                   IN [d EXCEPT !.sm = ext.sm,
                                !.out = @ \o BroadcastReqs(rs, sock, ext.filters)]
              ELSE [d EXCEPT !.sm = marked]
      [] msg.type = "Ok" ->
           LET res == OnOk(d.pending, d.storage, msg.event_id, msg.accepted,
                           IF msg.accepted THEN "" ELSE msg.message)
           IN [d EXCEPT !.pending = res.pending, !.storage = res.storage,
                        !.acked = @ \cup res.acked, !.err = res.err]
      [] OTHER -> d

RECURSIVE DispatchAll(_, _, _, _)
\* for msg in all_messages { self.process_relay_message(msg).await? }
\* (dv and ms name the values of d and msgs, each worked out once)
DispatchAll(d, msgs, rs, sock) ==
    CHOOSE res \in
        {IF ms = <<>> \/ dv.err THEN dv
         ELSE DispatchAll([ProcessRelayMessage(dv, Head(ms), rs, sock)
                              EXCEPT !.done = Append(dv.done, Head(ms))],
                          Tail(ms), rs, sock) : dv \in {d}, ms \in {msgs}} : TRUE

RECURSIVE DrainBackFrom(_)
\* the same loop over the relays taken from the last to the first
DrainBackFrom(r) ==
    IF r > NumRelays THEN <<>> ELSE DrainBackFrom(r + 1) \o inbox[r]

RECURSIVE DrainFrom(_)
\* all_messages.extend(relay.drain_messages()) for the relays r, r+1, ...
DrainFrom(r) ==
    IF r > NumRelays THEN <<>> ELSE inbox[r] \o DrainFrom(r + 1)

\* a connect without the early return: every relay of `who` is attempted
ConnectsWhateverState(who) == who

\* RelayConnection::connect: the relays for which tick or connect_all starts
\* an attempt are those of `who` that are Disconnected; the attempt makes a
\* socket unless WebSocket::new rejects the url
Connects(who) == {r \in who : rstate[r] = "Disconnected"}

\* a connect that takes the socket to be open as soon as it is made
AttemptedAsConnected(rs, who) ==
    [r \in Relays |-> IF r \in who THEN "Connected" ELSE rs[r]]

\* *self.state.borrow_mut() = ConnectionState::Connecting, for the relays of
\* `who`
Attempted(rs, who) ==
    [r \in Relays |-> IF r \in who THEN "Connecting" ELSE rs[r]]

RECURSIVE TickOutboxEveryQueued(_, _, _)
\* a tick that would broadcast every Queued item instead of the head alone
TickOutboxEveryQueued(q, rs, sock) ==
    IF q = <<>> THEN <<>>
    ELSE (IF Head(q).status = "Queued"
          THEN Broadcast(rs, sock, EventFrame(Head(q).event_json)) ELSE <<>>)
         \o TickOutboxEveryQueued(Tail(q), rs, sock)

\* the broadcast of the head item at the end of CoreHandle::tick
TickOutbox(q, rs, sock) ==
    LET head == Dequeue(q)
    IN IF head = <<>> THEN <<>> ELSE Broadcast(rs, sock, EventFrame(head[1]))

----------------------------------------------------------------------------
\* Initial state: CoreHandle::init, nothing connected, nothing queued, over
\* relay urls of which WebSocket::new rejects those of `bad`

InitState(bad, counts) ==
    /\ bad_url = bad
    /\ sendCount = counts
    /\ returned = <<>>
    /\ dispatched = <<>>
    /\ now = StartTime
    /\ pending = <<>>
    /\ storage = <<>>
    /\ storageUp = TRUE
    /\ nextEvent = 0
    /\ rstate = [r \in Relays |-> "Disconnected"]
    /\ ws = [r \in Relays |-> "None"]
    /\ last_connect_attempt = [r \in Relays |-> 0]
    /\ current_delay = [r \in Relays |-> MIN_DELAY]
    /\ inbox = [r \in Relays |-> <<>>]
    /\ active_subs = EmptyMap
    /\ channel_windows = EmptyMap
    /\ dm_windows = EmptyMap
    /\ signer = FALSE
    /\ event_buffer = <<>>
    /\ saved = <<>>
    /\ lastOp = "init"
    /\ lastResult = "ok"
    /\ lastSent = <<>>
    /\ wire = {}
    /\ acked = {}
    /\ extends = 0

\* the state after CoreHandle::init, no count of transmissions being kept
InitWith(bad) == InitState(bad, <<>>)

\* every relay url is one a WebSocket can be made for
Init == InitWith({})

\* the same state, with the transmissions of every event to every relay counted
InitCount == InitState({}, [k \in Relays \X (1..MaxEnqueue) |-> 0])

\* the transmissions of event k[2] to relay k[1] among the frames of one call
TakenBy(sent, k) ==
    Cardinality({n \in 1..Len(sent) :
                    /\ sent[n].taken
                    /\ sent[n].relay = k[1]
                    /\ sent[n].frame.event.id = k[2]})

\* what every operation of the core records about itself
RanDispatching(op, err, sent, value, msgs) ==
    /\ dispatched' = msgs
    /\ lastOp' = op
    /\ lastResult' = IF err THEN "err" ELSE "ok"
    /\ lastSent' = sent
    /\ wire' = wire \cup Transmitted(sent)
    /\ sendCount' = [k \in DOMAIN sendCount |->
                        IF sendCount[k] + TakenBy(sent, k) > CountCap THEN CountCap
                        ELSE sendCount[k] + TakenBy(sent, k)]
    /\ extends' = IF op = "extend_window" THEN extends + 1 ELSE extends
    /\ returned' = value

\* an operation that dispatches no relay message
RanReturning(op, err, sent, value) == RanDispatching(op, err, sent, value, <<>>)

\* an operation that returns () or an error
Ran(op, err, sent) == RanReturning(op, err, sent, <<>>)

----------------------------------------------------------------------------
\* The environment: the clock and the sockets

AdvanceTime ==
    \E d \in TimeSteps :
        /\ now + d <= StartTime + MaxElapsed
        /\ now' = now + d
        /\ UNCHANGED <<storageUp, signer, outboxVars, relayVars, subVars, feedVars,
                       traceVars>>

\* the onopen closure installed by RelayConnection::connect
OnOpen(r) ==
    /\ ws[r] = "CONNECTING"
    /\ ws' = [ws EXCEPT ![r] = "OPEN"]
    /\ rstate' = [rstate EXCEPT ![r] = "Connected"]
    /\ UNCHANGED <<now, storageUp, signer, outboxVars, last_connect_attempt,
                   current_delay, inbox, bad_url, subVars, feedVars, traceVars>>

\* the onclose closure installed by RelayConnection::connect
OnClose(r) ==
    /\ ws[r] \in {"CONNECTING", "OPEN", "ERRORED"}
    /\ ws' = [ws EXCEPT ![r] = "CLOSED"]
    /\ rstate' = [rstate EXCEPT ![r] = "Disconnected"]
    /\ UNCHANGED <<now, storageUp, signer, outboxVars, last_connect_attempt,
                   current_delay, inbox, bad_url, subVars, feedVars, traceVars>>

\* the onerror closure installed by RelayConnection::connect: it logs. The
\* socket that fires it has failed: its close event is still to come
OnError(r) ==
    /\ ws[r] \in {"CONNECTING", "OPEN"}
    /\ ws' = [ws EXCEPT ![r] = "ERRORED"]
    /\ UNCHANGED <<now, storageUp, signer, outboxVars, rstate, last_connect_attempt,
                   current_delay, inbox, bad_url, subVars, feedVars, traceVars>>

\* what the reverse of message_queue.borrow_mut().push(msg) would leave
PushFront(queue, msg) == <<msg>> \o queue

\* message_queue.borrow_mut().push(msg)
Push(queue, msg) == Append(queue, msg)

\* the onmessage closure installed by RelayConnection::connect, for a frame
\* that RelayMessage::parse accepts, while the buffer holds fewer than cap
OnMessageUpTo(r, msg, cap) ==
    /\ ws[r] = "OPEN"
    /\ Len(inbox[r]) < cap
    /\ inbox' = [inbox EXCEPT ![r] = Push(@, msg)]
    /\ UNCHANGED <<now, storageUp, signer, outboxVars, rstate, ws,
                   last_connect_attempt, current_delay, bad_url, subVars, feedVars,
                   traceVars>>

OnMessage(r, msg) == OnMessageUpTo(r, msg, MaxInbox)

\* the ids of the events relay r has been sent in EVENT frames
EventsSentTo(r) ==
    {w.frame.event.id : w \in {x \in wire : x.relay = r /\ x.frame.first = "EVENT"}}

\* the sub_ids relay r has been sent in REQ frames
SubsSentTo(r) ==
    {w.frame.sub_id : w \in {x \in wire : x.relay = r /\ x.frame.first = "REQ"}}

\* a relay answers an EVENT it was sent with ["OK", id, accepted, message]
RelayOk(r) ==
    \E id \in EventsSentTo(r), accepted \in BOOLEAN :
        OnMessage(r, MsgOk(id, accepted, IF accepted THEN "" ELSE "blocked"))

\* a relay sends ["EOSE", sub_id] for a sub_id of its choosing, asked or not
RelayEoseAny(r) ==
    \E sub_id \in {ChSubId(c) : c \in ChannelIds} \cup {DmSubId(q) : q \in PeerIds}
                       \cup {DmRevSubId(q) : q \in PeerIds} :
        /\ sub_id \in DOMAIN active_subs => active_subs[sub_id].eose_count < MaxEose
        /\ OnMessage(r, MsgEose(sub_id))

\* a relay answers a REQ it was sent with ["EOSE", sub_id]
RelayEose(r) ==
    \E sub_id \in SubsSentTo(r) :
        /\ sub_id \in DOMAIN active_subs => active_subs[sub_id].eose_count < MaxEose
        /\ OnMessage(r, MsgEose(sub_id))

----------------------------------------------------------------------------
\* The operations of the core

\* RelayConnection::connect called on one relay; lastOp tells an attempt
\* ("connect") from the early return ("connect_noop")
Connect(r) ==
    LET who == Connects({r})
    IN /\ rstate' = Attempted(rstate, who)
       /\ ws' = [ws EXCEPT ![r] = IF r \in who \ bad_url THEN "CONNECTING" ELSE @]
       /\ last_connect_attempt' =
              [last_connect_attempt EXCEPT ![r] = IF r \in who THEN now ELSE @]
       /\ Ran(IF r \in who THEN "connect" ELSE "connect_noop",
              r \in who \cap bad_url, <<>>)
       /\ UNCHANGED <<now, storageUp, signer, outboxVars, current_delay, inbox,
                      bad_url, subVars, feedVars>>

\* RelayConnection::send called on one relay
Send(r, frame) ==
    /\ Ran("send", FALSE,
           <<[relay |-> r, frame |-> frame, taken |-> SendTakes(rstate, ws, r)]>>)
    /\ UNCHANGED <<now, storageUp, signer, outboxVars, relayVars, subVars, feedVars>>

\* RelayConnection::drain_messages called on one relay
DrainMessages(r) ==
    /\ inbox' = [inbox EXCEPT ![r] = <<>>]
    /\ RanReturning("drain_messages", FALSE, <<>>, inbox[r])
    /\ UNCHANGED <<now, storageUp, signer, outboxVars, rstate, ws,
                   last_connect_attempt, current_delay, bad_url, subVars, feedVars>>

\* (self.current_delay * 2).min(self.max_delay)
Doubled(delay) == IF delay * 2 < MAX_DELAY THEN delay * 2 ELSE MAX_DELAY

\* ExponentialBackoff::next_delay on the backoff of one relay
NextDelay(r) ==
    /\ current_delay' = [current_delay EXCEPT ![r] = Doubled(@)]
    /\ RanReturning("next_delay", FALSE, <<>>, <<current_delay[r]>>)
    /\ UNCHANGED <<now, storageUp, signer, outboxVars, rstate, ws,
                   last_connect_attempt, inbox, bad_url, subVars, feedVars>>

\* what a reset that forgot min_delay would leave
ResetKeeps(delay) == delay

\* self.current_delay = self.min_delay
ResetDelay(delay) == MIN_DELAY

\* ExponentialBackoff::reset on the backoff of one relay
Reset(r) ==
    /\ current_delay' = [current_delay EXCEPT ![r] = ResetDelay(@)]
    /\ Ran("reset", FALSE, <<>>)
    /\ UNCHANGED <<now, storageUp, signer, outboxVars, rstate, ws,
                   last_connect_attempt, inbox, bad_url, subVars, feedVars>>

\* CoreHandle::connect_all
ConnectAll ==
    /\ rstate' = Attempted(rstate, Connects(Relays))
    /\ ws' = [r \in Relays |->
                 IF r \in Connects(Relays) \ bad_url THEN "CONNECTING" ELSE ws[r]]
    /\ last_connect_attempt' =
           [r \in Relays |->
               IF r \in Connects(Relays) THEN now ELSE last_connect_attempt[r]]
    /\ Ran("connect_all", FALSE, <<>>)
    /\ UNCHANGED <<now, storageUp, signer, outboxVars, current_delay, inbox, bad_url,
                   subVars, feedVars>>

\* OutboxQueue::enqueue, as send_public, send_dm and create_channel call it
\* with the JSON of a freshly signed event; nonce is what generate_req_id draws
Enqueue(nonce, mentions) ==
    LET item == NewItem([id |-> nextEvent + 1, mentions |-> mentions], nonce)
    IN /\ nextEvent < MaxEnqueue
       /\ nextEvent' = nextEvent + 1
       /\ IF storageUp
          THEN /\ storage' = EnqueueOutbox(storage, item)
               /\ pending' = Append(pending, item)
          ELSE UNCHANGED <<storage, pending>>
       /\ Ran("enqueue", ~storageUp, <<>>)
       /\ UNCHANGED <<now, storageUp, signer, acked, relayVars, subVars, feedVars>>

\* OutboxQueue::new over the Storage of the previous queue: the in-memory
\* queue of a restarted process
Restart ==
    /\ pending # <<>>
    /\ pending' = <<>>
    /\ Ran("restart", FALSE, <<>>)
    /\ UNCHANGED <<now, storageUp, signer, storage, nextEvent, acked, relayVars,
                   subVars, feedVars>>

\* OutboxQueue::load_pending
LoadPending ==
    /\ Len(pending) + Len(GetPendingOutbox(storage)) <= MaxPending
    /\ pending' = IF storageUp THEN pending \o GetPendingOutbox(storage) ELSE pending
    /\ Ran("load_pending", ~storageUp, <<>>)
    /\ UNCHANGED <<now, storageUp, signer, storage, nextEvent, acked, relayVars,
                   subVars, feedVars>>

\* OutboxQueue::on_ok called on the queue itself
OnOkCall(event_id, accepted, message) ==
    LET res == OnOk(pending, storage, event_id, accepted, message)
    IN /\ pending' = res.pending
       /\ storage' = res.storage
       /\ acked' = acked \cup res.acked
       /\ Ran("on_ok", res.err, <<>>)
       /\ UNCHANGED <<now, storageUp, signer, nextEvent, relayVars, subVars, feedVars>>

\* OutboxQueue::process(&self.relays)
Process ==
    LET res == ProcessLoop(pending, <<>>, storage, <<>>, rstate, ws)
    IN /\ pending' = res.pending
       /\ storage' = res.storage
       /\ Ran("process", res.err, res.sent)
       /\ UNCHANGED <<now, storageUp, signer, nextEvent, acked, relayVars, subVars,
                      feedVars>>

\* OutboxQueue::retry_failed
RetryFailed ==
    /\ pending' = [i \in 1..Len(pending) |-> Rearm(pending[i])]
    /\ Ran("retry_failed", FALSE, <<>>)
    /\ UNCHANGED <<now, storageUp, signer, storage, nextEvent, acked, relayVars,
                   subVars, feedVars>>

\* CoreHandle::set_signer
SetSigner ==
    /\ signer' = TRUE
    /\ Ran("set_signer", FALSE, <<>>)
    /\ UNCHANGED <<now, storageUp, outboxVars, relayVars, subVars, feedVars>>

\* CoreHandle::open_channel
OpenChannel(channel_id) ==
    LET res == SmOpenChannel(Sm, channel_id)
    IN /\ active_subs' = res.sm.active_subs
       /\ channel_windows' = res.sm.channel_windows
       /\ dm_windows' = res.sm.dm_windows
       /\ Ran("open_channel", FALSE, BroadcastReqs(rstate, ws, res.filters))
       /\ UNCHANGED <<now, storageUp, signer, outboxVars, relayVars, feedVars>>

\* CoreHandle::open_dm
OpenDm(peer) ==
    IF ~signer
    THEN /\ Ran("open_dm", TRUE, <<>>)
         /\ UNCHANGED <<now, storageUp, signer, outboxVars, relayVars, subVars,
                        feedVars>>
    ELSE LET res == SmOpenDm(Sm, peer, SelfPubkey)
         IN /\ active_subs' = res.sm.active_subs
            /\ channel_windows' = res.sm.channel_windows
            /\ dm_windows' = res.sm.dm_windows
            /\ Ran("open_dm", FALSE, BroadcastReqs(rstate, ws, res.filters))
            /\ UNCHANGED <<now, storageUp, signer, outboxVars, relayVars, feedVars>>

\* a handle that goes on to enqueue whatever the signer did
SignsRegardless(signed) == TRUE

\* self.signer.as_ref().ok_or_else(..)? and the ?s on nip04_encrypt and
\* sign_event: the operation goes on iff a signer is attached and did its part
Signs(signed) == signer /\ signed

\* create_channel, send_public and send_dm after the event is built: sign
\* (and encrypt), enqueue, return the event id
Submit(op, signed, mentions) ==
    LET item == NewItem([id |-> nextEvent + 1, mentions |-> mentions], nextEvent + 1)
        queued == Signs(signed) /\ storageUp
    IN /\ nextEvent < MaxEnqueue
       /\ nextEvent' = IF Signs(signed) THEN nextEvent + 1 ELSE nextEvent
       /\ storage' = IF queued THEN EnqueueOutbox(storage, item) ELSE storage
       /\ pending' = IF queued THEN Append(pending, item) ELSE pending
       /\ RanReturning(op, ~queued, <<>>, IF queued THEN <<item.event_json.id>> ELSE <<>>)
       /\ UNCHANGED <<now, storageUp, signer, acked, relayVars, subVars, feedVars>>

\* CoreHandle::create_channel; sign_ok: sign_event returns Ok
CreateChannel(sign_ok) == Submit("create_channel", sign_ok, {})

\* CoreHandle::send_public; the event names the channel in an e tag
SendPublic(channel, sign_ok) == Submit("send_public", sign_ok, channel)

\* CoreHandle::send_dm; encrypt_ok: nip04_encrypt returns Ok
SendDm(encrypt_ok, sign_ok) == Submit("send_dm", encrypt_ok /\ sign_ok, {})

\* what a call on the SubscriptionManager itself leaves of the manager
SmBecomes(op, sm) ==
    /\ active_subs' = sm.active_subs
    /\ channel_windows' = sm.channel_windows
    /\ dm_windows' = sm.dm_windows
    /\ Ran(op, FALSE, <<>>)
    /\ UNCHANGED <<now, storageUp, signer, outboxVars, relayVars, feedVars>>

\* SubscriptionManager::open_channel called on the manager itself
MgrOpenChannel(channel_id) ==
    SmBecomes("sm_open_channel", SmOpenChannel(Sm, channel_id).sm)

\* SubscriptionManager::open_dm called on the manager itself
MgrOpenDm(peer) == SmBecomes("sm_open_dm", SmOpenDm(Sm, peer, SelfPubkey).sm)

\* SubscriptionManager::mark_eose called on the manager itself
MarkEose(sub_id) ==
    /\ sub_id \in DOMAIN active_subs => active_subs[sub_id].eose_count < MaxEose
    /\ SmBecomes("mark_eose", SmMarkEose(Sm, sub_id))

\* SubscriptionManager::extend_window called on the manager itself
ExtendWindow(sub_id) ==
    /\ extends < MaxExtends
    /\ SmBecomes("extend_window", SmExtendWindow(Sm, sub_id).sm)

\* SubscriptionManager::close_subscription called on the manager itself
CloseSubscription(sub_id) ==
    SmBecomes("close_subscription", SmCloseSubscription(Sm, sub_id))

\* a poll that takes the rows from the back of the buffer (pop_back)
PolledFromBack(buffer, max) ==
    SubSeq(buffer, Len(buffer) - (IF max < Len(buffer) THEN max ELSE Len(buffer)) + 1,
           Len(buffer))

\* for _ in 0..max { if let Some(row) = self.event_buffer.pop_front() {
\* result.push(row) } else { break } }: the rows the loop pops
Polled(buffer, max) ==
    SubSeq(buffer, 1, IF max < Len(buffer) THEN max ELSE Len(buffer))

\* CoreHandle::poll_events
PollEvents(max) ==
    LET result == Polled(event_buffer, max)
    IN /\ event_buffer' = SubSeq(event_buffer, Len(result) + 1, Len(event_buffer))
       /\ RanReturning("poll_events", FALSE, <<>>, result)
       /\ UNCHANGED <<now, storageUp, signer, outboxVars, relayVars, subVars, saved>>

\* CoreHandle::tick
Tick ==
    LET who == Connects({r \in Relays : NeedsReconnect(r)})
        rs == Attempted(rstate, who)
        sock == [r \in Relays |-> IF r \in who \ bad_url THEN "CONNECTING" ELSE ws[r]]
        d0 == [pending |-> pending, storage |-> storage, sm |-> Sm,
               event_buffer |-> event_buffer, saved |-> saved, out |-> <<>>,
               acked |-> acked, err |-> FALSE, done |-> <<>>]
    IN \E d \in {DispatchAll(d0, DrainFrom(1), rs, sock)} :
       \E out \in {IF d.err THEN d.out ELSE d.out \o TickOutbox(d.pending, rs, sock)} :
       /\ rstate' = rs
       /\ ws' = sock
       /\ last_connect_attempt' =
              [r \in Relays |-> IF r \in who THEN now ELSE last_connect_attempt[r]]
       /\ inbox' = [r \in Relays |-> <<>>]
       /\ pending' = d.pending
       /\ storage' = d.storage
       /\ acked' = d.acked
       /\ active_subs' = d.sm.active_subs
       /\ channel_windows' = d.sm.channel_windows
       /\ dm_windows' = d.sm.dm_windows
       /\ event_buffer' = d.event_buffer
       /\ saved' = d.saved
       /\ RanDispatching("tick", d.err, out, <<>>, d.done)
       /\ UNCHANGED <<now, storageUp, signer, nextEvent, current_delay, bad_url>>

\* the ids an event may carry in its tags: none, or the id of the first event
\* (a channel message names the channel's creation event)
MentionChoices == IF nextEvent = 0 THEN {{}} ELSE {{}, {1}}

\* CoreHandle as the application drives it, at one reading of the clock:
\* events are queued, tick runs, sockets open and close, relays answer
Next ==
    \/ \E r \in Relays : OnOpen(r)
    \/ \E r \in Relays : OnClose(r)
    \/ \E r \in Relays : RelayOk(r)
    \/ \E mentions \in MentionChoices : Enqueue(nextEvent + 1, mentions)
    \/ Tick

Spec == Init /\ [][Next]_vars

\* CoreHandle with tick invoked again and again and relays that, once
\* Connected, stay Connected
NextLive ==
    \/ \E r \in Relays : OnOpen(r)
    \/ \E r \in Relays : RelayOk(r)
    \/ \E mentions \in MentionChoices : Enqueue(nextEvent + 1, mentions)
    \/ Tick

SpecLive == Init /\ [][NextLive]_vars /\ WF_vars(Tick)

\* the sub_ids the manager hands out for the channels and peers of the model
SubIds ==
    {ChSubId(c) : c \in ChannelIds} \cup {DmSubId(q) : q \in PeerIds}
        \cup {DmRevSubId(q) : q \in PeerIds}

\* CoreHandle's channel subscriptions: channels are opened, relays answer the
\* REQs with EOSE, tick dispatches the answers
NextSub ==
    \/ AdvanceTime
    \/ \E r \in Relays : OnOpen(r)
    \/ \E r \in Relays : RelayEose(r)
    \/ \E c \in ChannelIds : OpenChannel(c)
    \/ Tick

SpecSub == Init /\ [][NextSub]_vars

\* the notices a relay sends
Notices == {MsgNotice("x"), MsgNotice("y")}

\* RelayConnection objects driven through connect, drain_messages and tick
\* while the clock runs, their sockets open, fail and close, and relays send
\* notices; WebSocket::new rejects the urls of some relays
InitRelay == \E bad \in SUBSET Relays : InitWith(bad)

NextRelay ==
    \/ AdvanceTime
    \/ \E r \in Relays : Connect(r)
    \/ \E r \in Relays : OnOpen(r)
    \/ \E r \in Relays : OnError(r)
    \/ \E r \in Relays : OnClose(r)
    \/ \E r \in Relays, msg \in Notices : OnMessageUpTo(r, msg, MaxBuffered)
    \/ \E r \in Relays : DrainMessages(r)
    \/ Tick

SpecRelay == InitRelay /\ [][NextRelay]_vars

\* ExponentialBackoff objects (those of the relays) driven through next_delay
\* and reset
NextBackoff ==
    \/ \E r \in Relays : NextDelay(r)
    \/ \E r \in Relays : Reset(r)

SpecBackoff == Init /\ [][NextBackoff]_vars

\* CoreHandle's DM subscriptions at one reading of the clock: a signer is
\* attached, threads are opened, relays answer the REQs with EOSE, tick
\* dispatches the answers
NextDm ==
    \/ \E r \in Relays : OnOpen(r)
    \/ \E r \in Relays : RelayEose(r)
    \/ SetSigner
    \/ \E q \in PeerIds : OpenDm(q)
    \/ Tick

SpecDm == Init /\ [][NextDm]_vars

\* The same with subscriptions that are closed and relays that send EOSE for
\* any sub_id: one that is open, one that was closed, one never opened
NextEose ==
    \/ \E r \in Relays : OnOpen(r)
    \/ \E r \in Relays : RelayEoseAny(r)
    \/ SetSigner
    \/ \E q \in PeerIds : OpenDm(q)
    \/ \E s \in SubIds : CloseSubscription(s)
    \/ Tick

SpecEose == Init /\ [][NextEose]_vars

\* the events relays deliver for a subscription; relays deliver the same
\* event to every client that asks, so two relays may send the same id
FeedEvents == {[id |-> i, mentions |-> {}] : i \in 1..MaxFeedIds}

\* a relay sends ["EVENT", sub_id, event]; the feed takes MaxRows events
RelayEvent(r) ==
    \E ev \in FeedEvents, c \in ChannelIds :
        /\ Len(saved) + Len(DrainFrom(1)) < MaxRows
        /\ OnMessageUpTo(r, MsgEvent(ChSubId(c), ev), MaxBuffered)

\* a relay sends ["NOTICE", message]
RelayNotice(r) ==
    /\ Len(saved) + Len(DrainFrom(1)) < MaxRows
    /\ OnMessageUpTo(r, MsgNotice("x"), MaxBuffered)

\* IndexedDB starts or stops failing its transactions: from then on
\* save_event returns Err or Ok
StorageTurns ==
    /\ storageUp' = ~storageUp
    /\ UNCHANGED <<now, signer, outboxVars, relayVars, subVars, feedVars, traceVars>>

\* CoreHandle's feed at one reading of the clock: tick connects the relays,
\* the relays deliver events and notices, Storage fails and recovers, tick
\* dispatches what was delivered, the UI polls the rows
NextFeed ==
    \/ \E r \in Relays : OnOpen(r)
    \/ \E r \in Relays : RelayEvent(r)
    \/ \E r \in Relays : RelayNotice(r)
    \/ StorageTurns
    \/ \E max \in 0..MaxPoll : PollEvents(max)
    \/ Tick

SpecFeed == Init /\ [][NextFeed]_vars

\* SubscriptionManager driven through its own interface while the clock runs
NextSubMgr ==
    \/ AdvanceTime
    \/ \E c \in ChannelIds : MgrOpenChannel(c)
    \/ \E q \in PeerIds : MgrOpenDm(q)
    \/ \E s \in SubIds : MarkEose(s)
    \/ \E s \in SubIds : ExtendWindow(s)
    \/ \E s \in SubIds : CloseSubscription(s)

SpecSubMgr == Init /\ [][NextSubMgr]_vars

\* OutboxQueue driven through its own interface while the clock runs, with
\* the relays of the handle, which connect and stay connected
NextOutbox ==
    \/ AdvanceTime
    \/ \E r \in Relays : OnOpen(r)
    \/ ConnectAll
    \/ \E nonce \in 1..NonceRange : nextEvent < MaxOutboxItems /\ Enqueue(nonce, {})
    \/ \E id \in 1..nextEvent, accepted \in BOOLEAN :
          OnOkCall(id, accepted, IF accepted THEN "" ELSE "blocked")
    \/ Process
    \/ RetryFailed

SpecOutbox == Init /\ [][NextOutbox]_vars

\* OutboxQueue over a Storage that outlives it, at one reading of the clock:
\* the queue is used, the process restarts, load_pending reads Storage back
NextRecover ==
    \/ \E r \in Relays : OnOpen(r)
    \/ ConnectAll
    \/ \E nonce \in 1..NonceRange : nextEvent < MaxOutboxItems /\ Enqueue(nonce, {})
    \/ \E id \in 1..nextEvent, accepted \in BOOLEAN :
          OnOkCall(id, accepted, IF accepted THEN "" ELSE "blocked")
    \/ Process
    \/ Restart
    \/ LoadPending

SpecRecover == Init /\ [][NextRecover]_vars

\* CoreHandle's outbox over a Storage that outlives it, with tick invoked
\* again and again and relays that, once Connected, stay Connected: events
\* are queued, relays answer, the outbox is made anew and load_pending reads
\* Storage back
NextCrash ==
    \/ \E r \in Relays : OnOpen(r)
    \/ \E r \in Relays : RelayOk(r)
    \/ Enqueue(nextEvent + 1, {})
    \/ Restart
    \/ LoadPending
    \/ Tick

SpecCrash == Init /\ [][NextCrash]_vars /\ WF_vars(Tick)

\* CoreHandle's user-facing operations, before and after a signer is
\* attached, with a signer that signs and encrypts or fails to
NextSend ==
    \/ SetSigner
    \/ \E sign_ok \in BOOLEAN : CreateChannel(sign_ok)
    \/ \E channel \in MentionChoices, sign_ok \in BOOLEAN : SendPublic(channel, sign_ok)
    \/ \E encrypt_ok, sign_ok \in BOOLEAN : SendDm(encrypt_ok, sign_ok)
    \/ \E q \in PeerIds : OpenDm(q)
    \/ \E c \in ChannelIds : OpenChannel(c)

SpecSend == Init /\ [][NextSend]_vars

\* OutboxQueue driven through its own interface at one reading of the clock,
\* over a Storage that fails and recovers
NextOutboxFail ==
    \/ \E r \in Relays : OnOpen(r)
    \/ ConnectAll
    \/ StorageTurns
    \/ nextEvent < MaxOutboxItems /\ Enqueue(nextEvent + 1, {})
    \/ \E id \in 1..nextEvent, accepted \in BOOLEAN :
          OnOkCall(id, accepted, IF accepted THEN "" ELSE "blocked")
    \/ Process

SpecOutboxFail == Init /\ [][NextOutboxFail]_vars

\* CoreHandle and its outbox with every transmission counted, while the
\* clock runs and no relay ever answers: tick is invoked and process is called
NextBudget ==
    \/ AdvanceTime
    \/ \E r \in Relays : OnOpen(r)
    \/ nextEvent < MaxOutboxItems /\ Enqueue(nextEvent + 1, {})
    \/ Process
    \/ Tick

SpecBudget == InitCount /\ [][NextBudget]_vars

\* CoreHandle's relays with tick invoked again and again while the clock
\* runs and sockets open, fail and close
NextReconnect ==
    \/ AdvanceTime
    \/ \E r \in Relays : OnOpen(r)
    \/ \E r \in Relays : OnError(r)
    \/ \E r \in Relays : OnClose(r)
    \/ Tick

SpecReconnect == InitRelay /\ [][NextReconnect]_vars /\ WF_vars(Tick)

\* CoreHandle's subscriptions with tick invoked again and again while the
\* clock runs: channels and DM threads are opened before and after the
\* sockets open, and sockets close and are reconnected
NextResubscribe ==
    \/ AdvanceTime
    \/ \E r \in Relays : OnOpen(r)
    \/ \E r \in Relays : OnClose(r)
    \/ SetSigner
    \/ \E c \in ChannelIds : OpenChannel(c)
    \/ \E q \in PeerIds : OpenDm(q)
    \/ Tick

SpecResubscribe == Init /\ [][NextResubscribe]_vars /\ WF_vars(Tick)

\* the frames handed to send: an EVENT frame for each of two events
SendFrames == {EventFrame([id |-> i, mentions |-> {}]) : i \in 1..MaxFeedIds}

\* RelayConnection objects driven through connect and send while their
\* sockets open, fail and close
NextSendFrame ==
    \/ \E r \in Relays : Connect(r)
    \/ \E r \in Relays : OnOpen(r)
    \/ \E r \in Relays : OnError(r)
    \/ \E r \in Relays : OnClose(r)
    \/ \E r \in Relays, frame \in SendFrames : Send(r, frame)

SpecSendFrame == InitRelay /\ [][NextSendFrame]_vars

----------------------------------------------------------------------------
\* Properties of the outbox

StatusChanges ==
    {<<"Queued", "Sent">>, <<"Sent", "Ok">>, <<"Sent", "Error">>,
     <<"Queued", "Error">>, <<"Error", "Queued">>}

\* the event with this id has been transmitted by a socket, in whatever frame
EventTransmitted(id) == \E w \in wire : w.frame.event.id = id

EventFrames(sent) ==
    {i \in 1..Len(sent) : sent[i].frame.first = "EVENT"}

\* C1: every change of the status of an outbox item, in the queue or in its
\* Storage record, is Queued->Sent, Sent->Ok, Sent->Error, Queued->Error or
\* Error->Queued.
C1_OnlyListedStatusChanges ==
    [][/\ \A i \in 1..Len(pending), j \in 1..Len(pending') :
             pending[i].event_json = pending'[j].event_json
             => \/ pending'[j].status = pending[i].status
                \/ <<pending[i].status, pending'[j].status>> \in StatusChanges
       /\ \A k \in 1..Len(storage) :
             k <= Len(storage')
             => \/ storage'[k].status = storage[k].status
                \/ <<storage[k].status, storage'[k].status>> \in StatusChanges]_vars

\* the event with this id has been transmitted by a socket in an EVENT frame
EventFrameTransmitted(id) ==
    \E w \in wire : w.frame.first = "EVENT" /\ w.frame.event.id = id

\* the item of this event is Queued and every item ahead of it in the queue
\* has had its OK reply, a negative one
QueuedBehindAnswered(id) ==
    \E i \in 1..Len(pending) :
        /\ pending[i].event_json.id = id
        /\ pending[i].status = "Queued"
        /\ \A j \in 1..(i - 1) : pending[j].status = "Error"

\* C2: with tick invoked repeatedly and a relay Connected for good, an item
\* of the outbox is eventually transmitted in an EVENT frame, whatever OK
\* replies the items before it have received (here: negative ones).
C2_AtLeastOnce ==
    \A id \in 1..MaxEnqueue :
        (QueuedBehindAnswered(id) /\ \E r \in Relays : SendTakes(rstate, ws, r))
            ~> EventFrameTransmitted(id)

\* C3: once a positive OK has been processed for an item, the item is not in
\* the queue and Storage holds no record with its req_id.
C3_AckedItemGone ==
    \A req_id \in acked :
        /\ \A i \in 1..Len(pending) : pending[i].req_id # req_id
        /\ \A k \in 1..Len(storage) : storage[k].req_id # req_id

\* C4: every outbox item, in the queue and in Storage, has retry_count at most
\* MAX_RETRY_COUNT, and the retry_count of an item never decreases.
C4_RetryCountBounded ==
    /\ [](/\ \A i \in 1..Len(pending) : pending[i].retry_count <= MAX_RETRY_COUNT
          /\ \A k \in 1..Len(storage) : storage[k].retry_count <= MAX_RETRY_COUNT)
    /\ [][/\ \A i \in 1..Len(pending), j \in 1..Len(pending') :
                pending[i].event_json = pending'[j].event_json
                => pending'[j].retry_count >= pending[i].retry_count
          /\ \A k \in 1..Len(storage) :
                k <= Len(storage') => storage'[k].retry_count >= storage[k].retry_count
         ]_vars

\* C5: every frame handed to a relay for transmission is a JSON array whose
\* first element is "REQ", "EVENT" or "CLOSE".
C5_FramesAreRelayFrames ==
    \A n \in 1..Len(lastSent) :
        /\ lastSent[n].frame.array
        /\ lastSent[n].frame.first \in {"REQ", "EVENT", "CLOSE"}

\* C6: when a tick has broadcast the head item's EVENT frame and a Connected
\* relay took it, the item is Sent in the queue and in Storage.
C6_TickMarksSent ==
    lastOp = "tick" =>
        \A n \in EventFrames(lastSent) :
            lastSent[n].taken =>
                /\ \A i \in 1..Len(pending) :
                      pending[i].event_json = lastSent[n].frame.event
                      => pending[i].status = "Sent"
                /\ \A k \in 1..Len(storage) :
                      storage[k].event_json = lastSent[n].frame.event
                      => storage[k].status = "Sent"

\* C7: of two events enqueued in this order, the later one is never
\* transmitted unless the earlier one has been transmitted.
C7_EnqueueOrderIsSendOrder ==
    \A a \in 1..nextEvent, b \in 1..nextEvent :
        (a < b /\ EventTransmitted(b)) => EventTransmitted(a)

\* C8: a tick hands the relays the event of at most one outbox item, and
\* hands that one EVENT frame to every relay once.
C8_TickSendsOneItem ==
    lastOp = "tick" =>
        /\ Cardinality({lastSent[n].frame.event : n \in EventFrames(lastSent)}) <= 1
        /\ EventFrames(lastSent) # {} =>
              \A r \in Relays :
                  Cardinality({n \in EventFrames(lastSent) : lastSent[n].relay = r}) = 1

\* a tick with two Queued items in the queue whose one EVENT frame was taken
\* by every relay
C8_Witness ==
    /\ lastOp = "tick"
    /\ Cardinality({i \in 1..Len(pending) : pending[i].status = "Queued"}) >= 2
    /\ \A r \in Relays :
          \E n \in EventFrames(lastSent) : lastSent[n].relay = r /\ lastSent[n].taken

\* how far back the k-th EOSE moves the window
StageSeconds == <<3600, 86400, 604800, 2592000>>

\* C9: when a tick dispatches the k-th EOSE (k = 1..4) of a channel's
\* subscription "ch:{channel_id}", it hands the relays a REQ on the same sub_id
\* whose since is the previous since minus 3600, 86400, 604800, 2592000.
C9_ChannelEoseReissuesReq ==
    [][\A c \in ChannelIds :
          LET s == ChSubId(c)
              k == active_subs[s].eose_count + 1
          IN (/\ s \in DOMAIN active_subs
              /\ k \in 1..4
              /\ DrainFrom(1) = <<MsgEose(s)>>
              /\ Tick)
             => \E n \in 1..Len(lastSent') :
                    /\ lastSent'[n].frame.first = "REQ"
                    /\ lastSent'[n].frame.sub_id = s
                    /\ lastSent'[n].frame.filter.since =
                           active_subs[s].filter_json.since - StageSeconds[k]]_vars

\* C10: from one state to the next, a subscription that stays active never
\* has its since moved forward nor its eose_count lowered, and no channel or
\* DM window moves forward, also when the channel or peer is opened again.
C10_SinceAndEoseCountMonotonic ==
    [][/\ \A s \in DOMAIN active_subs \cap DOMAIN active_subs' :
             /\ active_subs'[s].filter_json.since <= active_subs[s].filter_json.since
             /\ active_subs'[s].eose_count >= active_subs[s].eose_count
       /\ \A c \in DOMAIN channel_windows \cap DOMAIN channel_windows' :
             channel_windows'[c] <= channel_windows[c]
       /\ \A q \in DOMAIN dm_windows \cap DOMAIN dm_windows' :
             dm_windows'[q] <= dm_windows[q]]_vars

\* the REQ frames of lastSent for this sub_id
ReqsFor(sent, sub_id) ==
    {n \in 1..Len(sent) : sent[n].frame.first = "REQ" /\ sent[n].frame.sub_id = sub_id}

\* C11: for a subscription whose eose_count exceeds 4, needs_extension is
\* false and extend_window returns none, and a further EOSE dispatched for it
\* leaves its stored filter (and so its since) as it was and sends no REQ on
\* its sub_id.
C11_FrozenAfterStageFour ==
    /\ [](\A s \in DOMAIN active_subs :
             active_subs[s].eose_count > 4
             => /\ ~NeedsExtension(Sm, s)
                /\ SmExtendWindow(Sm, s).filters = <<>>
                /\ SmExtendWindow(Sm, s).sm = Sm)
    /\ [][\A s \in DOMAIN active_subs \cap DOMAIN active_subs' :
             (/\ active_subs[s].eose_count > 4
              /\ active_subs'[s].eose_count > active_subs[s].eose_count)
             => /\ active_subs'[s].filter_json = active_subs[s].filter_json
                /\ ReqsFor(lastSent', s) = {}]_vars

\* a tick has dispatched an EOSE for a DM subscription that had been
\* extended and whose eose_count was already 5 or more
C11_Witness ==
    /\ lastOp = "tick"
    /\ \E s \in DOMAIN active_subs :
          /\ active_subs[s].eose_count >= 7
          /\ active_subs[s].filter_json.since < now - INITIAL_WINDOW

\* every message of msgs is an EOSE for a sub_id that is not active
AllEoseForInactive(msgs) ==
    /\ msgs # <<>>
    /\ \A i \in 1..Len(msgs) :
          msgs[i].type = "Eose" /\ msgs[i].sub_id \notin DOMAIN active_subs

\* C12: an EOSE for a sub_id that was never opened, or that close_subscription
\* has removed, changes no subscription state and sends no REQ, be it given
\* to mark_eose or dispatched by tick.
C12_EoseForInactiveSubIgnored ==
    /\ [](\A s \in SubIds \ DOMAIN active_subs : SmMarkEose(Sm, s) = Sm)
    /\ [][(Tick /\ AllEoseForInactive(DrainFrom(1)))
            => /\ active_subs' = active_subs
               /\ channel_windows' = channel_windows
               /\ dm_windows' = dm_windows
               /\ \A n \in 1..Len(lastSent') : lastSent'[n].frame.first # "REQ"]_vars

\* a tick has dispatched EOSEs for inactive sub_ids only, one of them for a DM
\* subscription that had been opened and then closed
C12_Witness ==
    /\ lastOp = "tick"
    /\ AllEoseForInactive(dispatched)
    /\ \E i \in 1..Len(dispatched), q \in DOMAIN dm_windows :
          dispatched[i].sub_id = DmSubId(q)

\* C13: connect() on a relay that is Connecting or Connected changes nothing
\* of any relay (state, last attempt, socket, buffer, backoff) and returns Ok.
C13_ConnectWhileConnectedIsNoOp ==
    [][\A r \in Relays :
          (rstate[r] \in {"Connecting", "Connected"} /\ Connect(r))
          => /\ rstate' = rstate
             /\ ws' = ws
             /\ last_connect_attempt' = last_connect_attempt
             /\ current_delay' = current_delay
             /\ inbox' = inbox
             /\ lastResult' = "ok"]_vars

\* connect() has just returned early while one relay was Connecting and
\* another Connected
C13_Witness ==
    /\ lastOp = "connect_noop"
    /\ lastResult = "ok"
    /\ \E r \in Relays : rstate[r] = "Connecting"
    /\ \E r \in Relays : rstate[r] = "Connected"

\* C14: the state of a relay changes only Disconnected -> Connecting,
\* Connecting -> Connected, Connected -> Disconnected or Connecting ->
\* Disconnected; never Disconnected -> Connected.
C14_RelayStateMachine ==
    [][\A r \in Relays :
          rstate'[r] # rstate[r]
          => <<rstate[r], rstate'[r]>> \in
                {<<"Disconnected", "Connecting">>, <<"Connecting", "Connected">>,
                 <<"Connected", "Disconnected">>, <<"Connecting", "Disconnected">>}]_vars

\* one relay has connected, opened and closed again, another is Connected
C14_Witness ==
    /\ \E r \in Relays : rstate[r] = "Disconnected" /\ ws[r] = "CLOSED"
    /\ \E r \in Relays : rstate[r] = "Connected" /\ ws[r] = "OPEN"

\* C15: a connect attempt that fails (the relay falls from Connecting back to
\* Disconnected) doubles the delay needs_reconnect waits for, up to 60 s, and
\* an attempt that completes (onopen) resets the delay to 1 s.
C15_BackoffDoublesOnFailure ==
    [][\A r \in Relays :
          /\ (rstate[r] = "Connecting" /\ rstate'[r] = "Disconnected")
             => current_delay'[r] = Doubled(current_delay[r])
          /\ (rstate[r] = "Connecting" /\ rstate'[r] = "Connected")
             => current_delay'[r] = MIN_DELAY]_vars

\* C16: ExponentialBackoff. next_delay returns the current delay and doubles
\* it, capped at 60: from a fresh or reset backoff the calls return 1, 2, 4,
\* 8, 16, 32, 60, 60, ...; reset brings the delay back to 1 whatever came
\* before; the delay always lies in 1..60.
C16_BackoffSequence ==
    /\ [](\A r \in Relays : current_delay[r] \in 1..60)
    /\ [][\A r \in Relays :
             /\ NextDelay(r)
                => /\ returned' = <<current_delay[r]>>
                   /\ returned'[1] \in {1, 2, 4, 8, 16, 32, 60}
                   /\ current_delay'[r] =
                          (IF returned'[1] = 32 \/ returned'[1] = 60
                           THEN 60 ELSE 2 * returned'[1])
             /\ Reset(r) => current_delay'[r] = 1]_vars

\* next_delay has returned the cap on one backoff while the other is back at
\* 1, its state after new() or reset()
C16_Witness ==
    /\ lastOp = "next_delay"
    /\ returned = <<60>>
    /\ \E r \in Relays : current_delay[r] = 1

\* C17: the buffer of a relay changes in two ways only. A message arrives:
\* it is put behind the messages already buffered, and nothing of the outbox,
\* the subscriptions or the feed changes. Or the buffer is drained, by
\* drain_messages or by tick: the drain gets every buffered message in
\* arrival order and leaves the buffer empty. So every message is drained
\* exactly once, and one that arrives after a drain waits for the next.
C17_DrainExactlyOnce ==
    [][\A r \in Relays :
          \/ inbox'[r] = inbox[r]
          \/ /\ Len(inbox'[r]) = Len(inbox[r]) + 1
             /\ SubSeq(inbox'[r], 1, Len(inbox[r])) = inbox[r]
             /\ UNCHANGED <<outboxVars, subVars, feedVars>>
          \/ /\ inbox'[r] = <<>>
             /\ \/ lastOp' = "drain_messages" /\ returned' = inbox[r]
                \/ lastOp' = "tick" /\ dispatched' = DrainFrom(1)]_vars

\* drain_messages has returned two different messages and every relay has
\* a message buffered again
C17_Witness ==
    /\ lastOp = "drain_messages"
    /\ Len(returned) = 2
    /\ returned[1] # returned[2]
    /\ \A r \in Relays : inbox[r] # <<>>

RECURSIVE ArrivalsUpTo(_)
\* what the relays 1..r hold, relay after relay, each in arrival order
ArrivalsUpTo(r) ==
    IF r = 0 THEN <<>> ELSE ArrivalsUpTo(r - 1) \o inbox[r]

RECURSIVE RowsOf(_)
\* the ids of the Event messages of msgs, in order
RowsOf(msgs) ==
    IF msgs = <<>> THEN <<>>
    ELSE (IF Head(msgs).type = "Event" THEN <<Head(msgs).event.id>> ELSE <<>>)
         \o RowsOf(Tail(msgs))

\* the messages of a tick that were dispatched with success
Succeeded(msgs, result) ==
    IF result = "err" THEN SubSeq(msgs, 1, Len(msgs) - 1) ELSE msgs

\* C18: a tick dispatches the messages in the order of the relay list and,
\* within a relay, in arrival order: what it dispatches is a prefix of the
\* buffers put one after another, all of it when the tick returns Ok; the
\* rows of the Event messages are appended to the feed buffer in that order.
C18_DispatchInRelayThenArrivalOrder ==
    [][Tick =>
          /\ Len(dispatched') <= Len(ArrivalsUpTo(NumRelays))
          /\ dispatched' = SubSeq(ArrivalsUpTo(NumRelays), 1, Len(dispatched'))
          /\ lastResult' = "ok" => dispatched' = ArrivalsUpTo(NumRelays)
          /\ event_buffer' =
                 event_buffer \o RowsOf(Succeeded(dispatched', lastResult'))]_vars

\* one tick has dispatched three messages, more than one relay buffers, two
\* of them different events, and the rows of both are in the feed buffer
C18_Witness ==
    /\ lastOp = "tick"
    /\ lastResult = "ok"
    /\ Len(dispatched) = 3
    /\ RowsOf(dispatched) = <<1, 2>>
    /\ event_buffer = <<1, 2>>

\* C19: a tick dispatches every message it drained, whether or not the
\* dispatch of one of them fails.
C19_DispatchSurvivesFailure ==
    [][Tick => dispatched' = ArrivalsUpTo(NumRelays)]_vars

\* C20: save_event is called once for an event id, however many relays
\* delivered the event and in however many ticks.
C20_SavedOncePerId ==
    \A i, j \in DOMAIN saved : saved[i] = saved[j] => i = j

\* C21: poll_events(max) returns the min(max, length) oldest rows of the
\* buffer in insertion order and removes exactly those: what it returns,
\* followed by what it leaves, is the buffer as it was.
C21_PollTakesOldestRows ==
    [][\A max \in 0..MaxPoll :
          PollEvents(max) =>
              /\ Len(returned') = (IF max < Len(event_buffer) THEN max
                                   ELSE Len(event_buffer))
              /\ returned' \o event_buffer' = event_buffer]_vars

\* a poll has returned two different rows and left a row in the buffer
C21_Witness ==
    /\ lastOp = "poll_events"
    /\ Len(returned) = 2
    /\ returned[1] # returned[2]
    /\ Len(event_buffer) = 1

\* C22: on_ok(event_id, false, message) for an item of the queue leaves the
\* item in the queue with status Error and error = message, and leaves the
\* Storage record of the item with status Error and error = message.
C22_RejectionPersisted ==
    [][\A id \in 1..MaxOutboxItems :
          (/\ OnOkCall(id, FALSE, "blocked")
           /\ \E i \in 1..Len(pending) : pending[i].event_json.id = id)
          => /\ Len(pending') = Len(pending)
             /\ \A i \in 1..Len(pending) :
                   pending[i].event_json.id = id
                   => /\ pending'[i].status = "Error"
                      /\ pending'[i].error = "blocked"
                      /\ \A k \in 1..Len(storage') :
                            storage'[k].req_id = pending[i].req_id
                            => /\ storage'[k].status = "Error"
                               /\ storage'[k].error = "blocked"]_vars

\* the queue is the one load_pending has just filled from Storage
Recovered == lastOp = "load_pending" /\ lastResult = "ok"

\* C23: load_pending on the empty queue of a restarted process leaves in the
\* queue the Storage items that are Queued or Sent, req_ids and all, and
\* with a relay Connected the ticks that follow transmit each of them in an
\* EVENT frame (unless the process restarts once more).
C23_RecoveredItemsTransmitted ==
    /\ [][lastOp = "restart" /\ LoadPending
            => pending' = GetPendingOutbox(storage)]_vars
    /\ \A id \in 1..MaxEnqueue :
          (/\ Recovered
           /\ \E i \in 1..Len(pending) : pending[i].event_json.id = id
           /\ ~EventFrameTransmitted(id)
           /\ \E r \in Relays : SendTakes(rstate, ws, r))
              ~> (EventFrameTransmitted(id) \/ lastOp = "restart")

\* C24: no two items of the queue share a req_id, no two Storage records
\* share a req_id.
C24_ReqIdsUnique ==
    /\ \A i, j \in 1..Len(pending) : pending[i].req_id = pending[j].req_id => i = j
    /\ \A i, j \in 1..Len(storage) : storage[i].req_id = storage[j].req_id => i = j

\* C25: create_channel, send_public and send_dm return an error and leave
\* the queue and Storage as they were when no signer is attached or when
\* the signer fails to sign or to encrypt; open_dm with no signer attached
\* returns an error and leaves the subscriptions as they were.
C25_NoSignerNoEffect ==
    [][/\ \A sign_ok, encrypt_ok \in BOOLEAN, channel \in MentionChoices :
            (/\ \/ CreateChannel(sign_ok)
                \/ SendPublic(channel, sign_ok)
                \/ SendDm(encrypt_ok, sign_ok)
             /\ ~signer \/ ~sign_ok)
            => /\ lastResult' = "err"
               /\ UNCHANGED <<pending, storage>>
       /\ \A sign_ok \in BOOLEAN :
            SendDm(FALSE, sign_ok)
            => /\ lastResult' = "err"
               /\ UNCHANGED <<pending, storage>>
       /\ \A q \in PeerIds :
            OpenDm(q) /\ ~signer
            => /\ lastResult' = "err"
               /\ UNCHANGED subVars
               /\ lastSent' = <<>>]_vars

\* with a signer attached and an event in the queue, send_dm has failed
C25_Witness ==
    /\ lastOp = "send_dm"
    /\ lastResult = "err"
    /\ signer
    /\ Len(pending) = 1
    /\ Len(storage) = 1

\* C26: when enqueue, on_ok or process returns the error of a Storage
\* operation, the queue is as it was before the call.
C26_StorageFailureLeavesQueue ==
    [][(/\ \/ Enqueue(nextEvent + 1, {})
           \/ Process
           \/ \E id \in 1..nextEvent, accepted \in BOOLEAN :
                 OnOkCall(id, accepted, IF accepted THEN "" ELSE "blocked")
        /\ lastResult' = "err")
       => pending' = pending]_vars

\* C27: send returns Ok and changes nothing of the connection; on a relay
\* that is not Connected no socket gets the frame, on a Connected relay the
\* socket gets the frame as it was given.
C27_SendDropsUnlessConnected ==
    [][\A r \in Relays, frame \in SendFrames :
          Send(r, frame) =>
              /\ lastResult' = "ok"
              /\ UNCHANGED <<relayVars, outboxVars, subVars, feedVars>>
              /\ wire' = (IF rstate[r] = "Connected"
                          THEN wire \cup {[relay |-> r, frame |-> frame]}
                          ELSE wire)]_vars

\* a frame was sent and transmitted, and now send has been called on a relay
\* whose socket is still connecting: the frame was dropped
C27_Witness ==
    /\ lastOp = "send"
    /\ ~lastSent[1].taken
    /\ ws[lastSent[1].relay] = "CONNECTING"
    /\ rstate[lastSent[1].relay] = "Connecting"
    /\ wire # {}
    /\ \A w \in wire : w.frame # lastSent[1].frame

\* C28: an item of the queue is changed or removed by an operation only if
\* the operation dispatched an OK whose event_id is the item's own event id.
C28_OkTouchesOwnItemOnly ==
    [][\A i \in 1..Len(pending) :
          (\A j \in 1..Len(pending') : pending'[j] # pending[i])
          => \E k \in 1..Len(dispatched') :
                /\ dispatched'[k].type = "Ok"
                /\ dispatched'[k].event_id = pending[i].event_json.id]_vars

\* C29: when extend_window(sub_id) returns a filter for a DM subscription,
\* "dm:{peer}" or "dm:{peer}:r", at stage k = eose_count in 1..4, the since
\* of the filter it returns and stores is the since of the filter stored for
\* that sub_id before, minus the amount of stage k.
C29_DmExtensionFromOwnSince ==
    [][\A q \in PeerIds : \A s \in {DmSubId(q), DmRevSubId(q)} :
          (/\ ExtendWindow(s)
           /\ SmExtendWindow(Sm, s).filters # <<>>)
          => LET k == active_subs[s].eose_count
                 since == active_subs[s].filter_json.since - StageSeconds[k]
             IN /\ k \in 1..4
                /\ SmExtendWindow(Sm, s).filters[1].filter_json.since = since
                /\ active_subs'[s].filter_json.since = since]_vars

\* C30: needs_extension(sub_id) is true exactly when sub_id is an active
\* subscription whose eose_count is 1, 2, 3 or 4.
C30_NeedsExtensionStages ==
    \A s \in SubIds :
        NeedsExtension(Sm, s)
            <=> (s \in DOMAIN active_subs /\ active_subs[s].eose_count \in 1..4)

\* C31: extend_window(sub_id) changes of the stored filters only the since of
\* the filter of sub_id: the other fields of that filter are as they were and
\* it gets no new field, the pair it returns carries sub_id and the stored
\* filter, and no other subscription has its filter or eose_count changed.
C31_ExtensionChangesSinceOnly ==
    [][\A s \in SubIds :
          ExtendWindow(s) =>
              /\ DOMAIN active_subs' = DOMAIN active_subs
              /\ \A t \in DOMAIN active_subs \ {s} :
                    /\ active_subs'[t].filter_json = active_subs[t].filter_json
                    /\ active_subs'[t].eose_count = active_subs[t].eose_count
              /\ s \in DOMAIN active_subs
                 => /\ [active_subs'[s].filter_json
                            EXCEPT !.since = active_subs[s].filter_json.since]
                           = active_subs[s].filter_json
                    /\ active_subs'[s].eose_count = active_subs[s].eose_count
                    /\ \A n \in 1..Len(SmExtendWindow(Sm, s).filters) :
                          /\ SmExtendWindow(Sm, s).filters[n].sub_id = s
                          /\ SmExtendWindow(Sm, s).filters[n].filter_json
                                 = active_subs'[s].filter_json]_vars

\* extend_window has moved the since of one of the two subscriptions of a
\* peer, and both still ask for kind 4 with their own authors and #p
C31_Witness ==
    /\ lastOp = "extend_window"
    /\ \E q \in PeerIds :
          /\ {DmSubId(q), DmRevSubId(q)} \subseteq DOMAIN active_subs
          /\ active_subs[DmSubId(q)].filter_json.since
                 < active_subs[DmRevSubId(q)].filter_json.since
          /\ active_subs[DmSubId(q)].filter_json.kinds = 4
          /\ active_subs[DmSubId(q)].filter_json.authors = SelfPubkey
          /\ active_subs[DmSubId(q)].filter_json.tag_p = q

\* C32: a connect that returns the error of the socket's creation, an onerror
\* event and an onclose event each leave the relay Disconnected with its
\* socket handle released.
C32_FailureDisconnects ==
    [][\A r \in Relays :
          (\/ Connect(r) /\ lastResult' = "err"
           \/ OnError(r)
           \/ OnClose(r))
          => /\ rstate'[r] = "Disconnected"
             /\ ws'[r] = "None"]_vars

\* process leaves a Sent item alone while it waits for its OK
AwaitsOk(item) ==
    item.status = "Sent" /\ now - item.last_try_at < RETRY_DELAY_SECONDS

\* the relays to which this call has handed the event of the item
SentTo(sent, item) ==
    {sent[n].relay : n \in {m \in 1..Len(sent) : sent[m].frame.event = item.event_json}}

\* C33: process never transmits an item whose retry_count is MAX_RETRY_COUNT
\* or more; an item at MAX_RETRY_COUNT - 1 that process transmits comes out at
\* MAX_RETRY_COUNT, and an item that process reaches at MAX_RETRY_COUNT, its
\* last attempt unanswered, is marked Error in Storage and is in the queue no
\* more.
C33_LastAttemptThenError ==
    [][Process =>
          \A i \in 1..Len(pending) :
              /\ Exhausted(pending[i]) => SentTo(lastSent', pending[i]) = {}
              /\ (/\ pending[i].retry_count = MAX_RETRY_COUNT - 1
                  /\ SentTo(lastSent', pending[i]) # {})
                 => \E j \in 1..Len(pending') :
                       /\ pending'[j].req_id = pending[i].req_id
                       /\ pending'[j].event_json = pending[i].event_json
                       /\ pending'[j].retry_count = MAX_RETRY_COUNT
              /\ (Exhausted(pending[i]) /\ ~AwaitsOk(pending[i]))
                 => /\ \A j \in 1..Len(pending') :
                          pending'[j].event_json # pending[i].event_json
                    /\ \E k \in 1..Len(storage') :
                          /\ storage'[k].req_id = pending[i].req_id
                          /\ storage'[k].status = "Error"]_vars

\* what the claim C34 says process makes of an item it keeps
AfterProcess(item) ==
    IF AwaitsOk(item) THEN item
    ELSE IF \E r \in Relays : rstate[r] = "Connected"
    THEN [item EXCEPT !.status = "Sent", !.last_try_at = now,
                      !.retry_count = item.retry_count + 1]
    ELSE item

\* the items of q that process keeps: all but those it finds out of budget
KeptByProcess(q) ==
    SelectSeq(q, LAMBDA item : AwaitsOk(item) \/ item.retry_count < MAX_RETRY_COUNT)

DueForRearm(item) ==
    /\ item.status = "Error"
    /\ item.retry_count < MAX_RETRY_COUNT
    /\ now - item.last_try_at >= 5 * item.retry_count

\* C35: retry_failed sets to Queued exactly the items that are Error, below
\* MAX_RETRY_COUNT and whose last attempt is at least 5 s times retry_count
\* old; every other item is as it was, and an item whose budget is spent is
\* never rearmed.
C35_RearmsExactlyTheDue ==
    [][RetryFailed =>
          /\ Len(pending') = Len(pending)
          /\ \A i \in 1..Len(pending) :
                /\ DueForRearm(pending[i])
                   => /\ pending'[i].status = "Queued"
                      /\ [pending'[i] EXCEPT !.status = "Error",
                                             !.error = pending[i].error] = pending[i]
                /\ ~DueForRearm(pending[i]) => pending'[i] = pending[i]
                /\ pending[i].retry_count >= MAX_RETRY_COUNT
                   => pending'[i].status = pending[i].status]_vars

\* retry_failed has rearmed an item that had been attempted and has left
\* another one Error
C35_Witness ==
    /\ lastOp = "retry_failed"
    /\ \E i, j \in 1..Len(pending) :
          /\ pending[i].status = "Queued" /\ pending[i].retry_count >= 1
          /\ pending[j].status = "Error"

\* C36: dequeue returns the event_json of the head item exactly when the queue
\* is not empty and its head is Queued, and an item leaves the queue only in
\* an on_ok call whose positive OK matches it.
C36_OnlyPositiveOkRemoves ==
    /\ [](Dequeue(pending) # <<>> <=> (Len(pending) > 0 /\ pending[1].status = "Queued"))
    /\ [](Dequeue(pending) # <<>> => Dequeue(pending) = <<pending[1].event_json>>)
    /\ [][\A i \in 1..Len(pending) :
             (\A j \in 1..Len(pending') : pending'[j].event_json # pending[i].event_json)
             => /\ lastOp' = "on_ok"
                /\ pending[i].req_id \in acked']_vars

\* C37: every item of the in-memory queue has a Storage record with its
\* req_id and its status.
C37_QueueMirrorsStorage ==
    \A i \in 1..Len(pending) :
        \E k \in 1..Len(storage) :
            /\ storage[k].req_id = pending[i].req_id
            /\ storage[k].status = pending[i].status

\* C38: the event of an outbox item is transmitted to a relay at most
\* MAX_RETRY_COUNT times, whatever ticks and process calls are made.
C38_TransmissionsWithinBudget ==
    \A k \in DOMAIN sendCount : sendCount[k] <= MAX_RETRY_COUNT

\* C39: with tick invoked again and again, a Disconnected relay whose backoff
\* delay has elapsed since its last attempt gets a connect attempt (it is
\* Connecting, its last attempt made now), and a tick leaves a Connected
\* relay's state, socket and last attempt as they are.
C39_TickReconnects ==
    /\ \A r \in Relays :
          (/\ rstate[r] = "Disconnected"
           /\ now - last_connect_attempt[r] >= current_delay[r])
              ~> (rstate[r] = "Connecting" /\ last_connect_attempt[r] = now)
    /\ [][Tick =>
             \A r \in Relays :
                 rstate[r] = "Connected"
                 => /\ rstate'[r] = "Connected"
                    /\ ws'[r] = ws[r]
                    /\ last_connect_attempt'[r] = last_connect_attempt[r]]_vars

\* a tick has just started a new attempt for a relay whose socket had closed
\* and has left alone a relay that is Connected since an earlier attempt
C39_Witness ==
    /\ lastOp = "tick"
    /\ \E r, q \in Relays :
          /\ rstate[r] = "Connecting" /\ ws[r] = "CONNECTING"
          /\ last_connect_attempt[r] = now
          /\ rstate[q] = "Connected" /\ ws[q] = "OPEN"
          /\ last_connect_attempt[q] < now

\* a socket of relay r has transmitted a REQ on this sub_id
ReqTransmitted(r, sub_id) ==
    \E w \in wire :
        w.relay = r /\ w.frame.first = "REQ" /\ w.frame.sub_id = sub_id

\* C40: with tick invoked again and again, a subscription that is open while
\* a relay is Connected is eventually issued to that relay as a REQ, unless
\* the relay's connection is lost first, whether the relay was Connected when
\* the subscription was opened or not.
C40_OpenSubscriptionReachesRelay ==
    \A s \in SubIds, r \in Relays :
        (s \in DOMAIN active_subs /\ rstate[r] = "Connected")
            ~> (ReqTransmitted(r, s) \/ rstate[r] # "Connected")

====
